---- MODULE Spec2Model ----
(***************************************************************************)
(* A model of ez_disk_cache/disk_cache.py: the disk_cache decorator's      *)
(* wrapper (lookup, create, compute, payload write, commit, rollback,      *)
(* cleanup, read) over an abstract file system, and the LazyList class.    *)
(*                                                                         *)
(* The cache root folder is the function fs from directory names to the    *)
(* files each instance directory holds.  Time is the wall clock `now`,     *)
(* in seconds; it advances with Tick, so two clock readings may be equal   *)
(* (the clock has a finite resolution).                                    *)
(***************************************************************************)
EXTENDS Integers, Sequences, FiniteSets, TLC

\* ------------------------------------------------------------------ bounds
MaxTime == 2    \* the clock stops advancing at MaxTime
MaxLen == 2     \* longest iterable a user function returns
MaxDirs == 3    \* directory names available in the cache root
MaxShelf == 3   \* longest shelf a LazyList is opened on
MaxItems == 11  \* longest stored iterable that is read back

\* ------------------------------------------------------------- input sets
\* Values a user function returns (or yields): the value v stands for an object
\* whose pickle takes v size units, a small one and a large one.
Values == {1, 5}

\* The config objects passed to the decorated function: a dataclass with the
\* fields a and b, as _DummyConfig of the tests.
DescA == [a |-> 1, b |-> "x"]
DescB == [a |-> 2, b |-> "x"]
DescC == [a |-> 1, b |-> "y"]
Descs == {DescA, DescB, DescC}

Strategies == {"lazy-load-discard", "lazy-load-keep", "completely-load-to-memory"}

\* max_cache_instances and max_cache_root_size_mb: <<>> is None, <<k>> a limit.
InstanceLimits == {<<>>, <<1>>, <<2>>}
SizeLimits == {<<>>, <<5>>}

\* The decorations: every pair of limits with the default strategy, and every
\* strategy without limits (the limits are read by _cleanup alone, the strategy
\* by _read_cache_instance alone).
Decorations ==
    {c \in InstanceLimits \X SizeLimits \X Strategies :
        c[3] = "lazy-load-keep" \/ (c[1] = <<>> /\ c[2] = <<>>)}

\* What ends a step abnormally: an error, or a cooperative cancellation.
Failures == {"Exception", "KeyboardInterrupt"}

DirIds == 1..MaxDirs

VARIABLES
    fs,          \* the cache root folder: directory name -> instance directory
    now,         \* the wall clock, in seconds
    maxInst,     \* max_cache_instances
    maxSize,     \* max_cache_root_size_mb
    strategy,    \* iterable_loading_strategy
    pc,          \* position of the wrapper call in progress ("idle": none)
    req,         \* _config of the call
    path,        \* _cache_instance_path of the call (0: not set)
    userData,    \* _user_data: [iter, items]
    idx,         \* number of items of _user_data written to the shelf
    deletable,   \* _sorted_deletable_paths of _cleanup
    exc,         \* the exception in flight ("": none)
    invoked,     \* number of times the call has invoked user_function
    fault,       \* what was raised inside the call ("": nothing)
    before,      \* the root folder's stats when the call started
    ret,         \* outcome of the latest call that ended
    useOrder,    \* the directories that were read, least recently read first
    scen,        \* progress of the call sequence A, B, A, C, then one more call
    lazy,        \* a LazyList object
    lastOp,      \* the latest operation on lazy and its result
    out,         \* the items obtained from a stored iterable so far
    hist,        \* what was done with lazy: [accessed, closed]
    peer         \* a second wrapper call on the same root: [pc, req, path, dir, outcome]

confVars == <<maxInst, maxSize, strategy>>
callVars == <<pc, req, path, userData, idx, deletable, exc>>
histVars == <<invoked, fault, before, ret, useOrder, scen>>
lazyVars == <<lazy, lastOp, out, hist>>
vars == <<fs, now, confVars, callVars, histVars, lazyVars, peer>>

\* --------------------------------------------------------------- helpers
RECURSIVE SumOver(_, _)
SumOver(S, f) ==
    IF S = {} THEN 0
    ELSE LET x == CHOOSE y \in S : TRUE IN f[x] + SumOver(S \ {x}, f)

\* str(idx), as the sequence of its character codes ("-" is 45, "0" is 48).
RECURSIVE Digits(_)
Digits(n) == IF n < 10 THEN <<48 + n>> ELSE Digits(n \div 10) \o <<48 + (n % 10)>>

Str(n) == IF n < 0 THEN <<45>> \o Digits(0 - n) ELSE Digits(n)

\* Python's order on str: lexicographic by character code.
RECURSIVE StrLess(_, _)
StrLess(s, t) ==
    IF t = <<>> THEN FALSE
    ELSE IF s = <<>> THEN TRUE
    ELSE IF Head(s) # Head(t) THEN Head(s) < Head(t)
    ELSE StrLess(Tail(s), Tail(t))

\* time.time_ns(): the clock reading in nanoseconds.  A second is 1000 units
\* here instead of 10^9, which keeps the order of every pair of readings as
\* long as MaxTime < 1000.
TimeNs(t) == t * 1000

\* pickle.dump(v): the number of size units v takes on disk.
PickleSize(v) == v

\* ------------------------------------------------------- config objects
\* DiskCacheConfig._to_dict: self.__dict__, the fields in declaration order.
ToDict(c) == << <<"a", c.a>>, <<"b", c.b>> >>

\* DiskCacheConfig._from_dict: cls(**dict_); raises unless the keys are the fields.
FromDictRaises(d) == Len(d) # 2 \/ d[1][1] # "a" \/ d[2][1] # "b"

FromDict(d) == [a |-> d[1][2], b |-> d[2][2]]

\* DiskCacheConfig._cache_is_compatible: equality of the two config objects.
CacheIsCompatible(passed, loaded) == passed = loaded

\* ------------------------------------------------------- the file system
\* An instance directory: config.yaml (cfg: "none", "partial" while it is open
\* and not yet dumped, "ok"; dict: its content), single-cache.bin (single: <<>>
\* or <<v>>), iterable-cache.shelf.bin (hasShelf; shelf: key -> value),
\* .last-usage (usage: <<>> or <<t>>), and the directory's st_mtime.
EmptyDir(t) ==
    [cfg |-> "none", dict |-> <<>>, single |-> <<>>, hasShelf |-> FALSE,
     shelf |-> <<>>, usage |-> <<>>, mtime |-> t]

\* The shelf after shelf[str(i)] = items[i+1] for i < n.
ShelfOf(items, n) ==
    [k \in {Str(i) : i \in 0..(n - 1)} |->
        items[(CHOOSE i \in 0..(n - 1) : Str(i) = k) + 1]]

\* st_size summed over the files of one instance directory: config.yaml and
\* .last-usage take one size unit each, an empty file none.
DirSize(d) ==
    (IF d.cfg = "ok" THEN 1 ELSE 0)
    + (IF d.single = <<>> THEN 0 ELSE PickleSize(d.single[1]))
    + (IF d.hasShelf THEN SumOver(DOMAIN d.shelf, [k \in DOMAIN d.shelf |-> PickleSize(d.shelf[k])]) ELSE 0)
    + (IF d.usage = <<>> THEN 0 ELSE 1)

\* _get_cache_root_folder_stats
NInstances(f) == Cardinality(DOMAIN f)

RootSize(f) == SumOver(DOMAIN f, [p \in DOMAIN f |-> DirSize(f[p])])

\* shutil.rmtree of one instance directory
RmTree(f, p) == [q \in DOMAIN f \ {p} |-> f[q]]

\* ------------------------------------------------------------- LazyList
\* LazyList.__init__: the open shelf, its length, and for "lazy-load-keep" the
\* slots (0 stands for None).
LazyInit(shelf, strat) ==
    LET n == Cardinality(DOMAIN shelf) IN
    [strategy |-> strat, shelf |-> shelf, isOpen |-> TRUE, len |-> n,
     loaded |-> IF strat = "lazy-load-keep" THEN [i \in 1..n |-> FALSE] ELSE <<>>,
     storage |-> IF strat = "lazy-load-keep" THEN [i \in 1..n |-> 0] ELSE <<>>,
     nLoaded |-> 0]

\* A Python list indexed at i: a negative i counts from the end.
PyAt(list, i) == IF i < 0 THEN list[Len(list) + i + 1] ELSE list[i + 1]

PyPut(list, i, v) ==
    IF i < 0 THEN [list EXCEPT ![Len(list) + i + 1] = v] ELSE [list EXCEPT ![i + 1] = v]

\* A _close that flips _is_open instead of clearing it.
CloseToggle(l) == [l EXCEPT !.isOpen = ~l.isOpen]

\* LazyList._close
Close(l) == IF l.isOpen = FALSE THEN l ELSE [l EXCEPT !.isOpen = FALSE]

\* LazyList.__getitem__, its bounds check.
OutOfBounds(l, i) == ~(0 - l.len < i /\ i < l.len)

\* LazyList.__getitem__: what l[i] does, as [result, value, lazy, read]: the
\* result is "ok" with the value returned, or the exception raised (IndexError
\* from the bounds check, KeyError from a shelf that has no key str(i),
\* ValueError from a closed shelf), lazy is the object afterwards, and read
\* tells whether self._shelf[str(idx)] was evaluated.
GetItem(l, i) ==
    IF OutOfBounds(l, i)
    THEN [result |-> "IndexError", value |-> 0, lazy |-> l, read |-> FALSE]
    ELSE IF l.strategy = "lazy-load-keep" /\ PyAt(l.loaded, i) = TRUE
    THEN [result |-> "ok", value |-> PyAt(l.storage, i), lazy |-> l, read |-> FALSE]
    ELSE IF ~l.isOpen
    THEN [result |-> "ValueError", value |-> 0, lazy |-> l, read |-> TRUE]
    ELSE IF Str(i) \notin DOMAIN l.shelf
    THEN [result |-> "KeyError", value |-> 0, lazy |-> l, read |-> TRUE]
    ELSE LET datum == l.shelf[Str(i)] IN
         IF l.strategy = "lazy-load-keep"
         THEN LET kept == [l EXCEPT !.loaded = PyPut(l.loaded, i, TRUE),
                                    !.storage = PyPut(l.storage, i, datum),
                                    !.nLoaded = l.nLoaded + 1]
              IN [result |-> "ok", value |-> datum, read |-> TRUE,
                  lazy |-> IF kept.nLoaded = kept.len THEN Close(kept) ELSE kept]
         ELSE [result |-> "ok", value |-> datum, lazy |-> l, read |-> TRUE]

\* LazyList.__eq__: equal lengths and equal items at every index.
LazyEq(l, m) ==
    /\ l.len = m.len
    /\ \A i \in 0..(l.len - 1) : GetItem(l, i).value = GetItem(m, i).value

\* sorted(shelf.keys()): the keys in ascending str order.
RECURSIVE SortedKeys(_)
SortedKeys(K) ==
    IF K = {} THEN <<>>
    ELSE LET m == CHOOSE k \in K : \A j \in K \ {k} : StrLess(k, j)
         IN <<m>> \o SortedKeys(K \ {m})

\* [shelf[k] for k in sorted(shelf.keys())]
EagerList(shelf) ==
    LET keys == SortedKeys(DOMAIN shelf) IN [i \in 1..Len(keys) |-> shelf[keys[i]]]

\* ------------------------------------------------------- the cache calls
NoData == [iter |-> FALSE, items |-> <<>>]
NoValue == [kind |-> "none", data |-> <<>>]
NoRet == [desc |-> DescA, outcome |-> "none", exc |-> "", value |-> NoValue,
          invoked |-> 0, n |-> 0]
NoStats == [n |-> 0, size |-> 0]

\* What user_function returns: a single value, or an iterable (a list, a tuple
\* or a generator) of MaxLen items 1, 5, 1, ...
Stream(n) == [i \in 1..n |-> IF i % 2 = 1 THEN 1 ELSE 5]

UserResults ==
    {[iter |-> FALSE, items |-> <<v>>] : v \in Values}
    \cup {[iter |-> TRUE, items |-> Stream(MaxLen)]}

\* _lookup_cache: the sub-directories it may return.  iterdir() enumerates in
\* no fixed order, so the first compatible instance is any compatible one.
\* yaml.safe_load of a config.yaml that was opened but not dumped yields no
\* dictionary of the fields, and _from_dict raises on it: the instance is skipped.
ParseRaises(d) == d.cfg = "partial" \/ FromDictRaises(d.dict)

\* A lookup that tests for the absence of config.yaml: nothing ever matches.
LookupResultsNoFile(f, config) ==
    {p \in DOMAIN f :
        /\ f[p].cfg = "none"
        /\ ~ParseRaises(f[p])
        /\ CacheIsCompatible(config, FromDict(f[p].dict))}

\* A lookup that takes a sub-directory without config.yaml for a match.
LookupResultsAnyDir(f, config) ==
    {p \in DOMAIN f :
        f[p].cfg = "ok" => CacheIsCompatible(config, FromDict(f[p].dict))}

LookupResults(f, config) ==
    {p \in DOMAIN f :
        /\ f[p].cfg # "none"
        /\ ~ParseRaises(f[p])
        /\ CacheIsCompatible(config, FromDict(f[p].dict))}

\* iterdir(): the orders in which the directories of the set S are enumerated.
RECURSIVE Enumerations(_)
Enumerations(S) ==
    IF S = {} THEN {<<>>}
    ELSE UNION {{<<p>> \o e : e \in Enumerations(S \ {p})} : p \in S}

\* A scan that ends at the first config.yaml that fails to load.
RECURSIVE LookupScanAborts(_, _, _)
LookupScanAborts(f, config, order) ==
    IF order = <<>> THEN 0
    ELSE LET d == f[Head(order)] IN
         IF d.cfg = "none" THEN LookupScanAborts(f, config, Tail(order))
         ELSE IF ParseRaises(d) THEN 0
         ELSE IF CacheIsCompatible(config, FromDict(d.dict)) THEN Head(order)
         ELSE LookupScanAborts(f, config, Tail(order))

\* _lookup_cache, its for loop over the sub-directories in the order iterdir()
\* gave them: the path it returns, 0 for None.
RECURSIVE LookupScan(_, _, _)
LookupScan(f, config, order) ==
    IF order = <<>> THEN 0
    ELSE LET d == f[Head(order)] IN
         IF d.cfg = "none" THEN LookupScan(f, config, Tail(order))
         ELSE IF ParseRaises(d) THEN LookupScan(f, config, Tail(order))
         ELSE IF CacheIsCompatible(config, FromDict(d.dict)) THEN Head(order)
         ELSE LookupScan(f, config, Tail(order))

\* _read_cache_instance, the write to the last-usage file: the file holds the
\* clock reading, formatted with ".3f" (through a float, which rounds it), and
\* _get_cache_instance_last_usage_time parses it back with float(): two reads
\* at the same clock reading store the same number.  Creating the file
\* modifies the directory.
TouchLastUsage(d, t) ==
    [d EXCEPT !.usage = <<TimeNs(t)>>,
              !.mtime = IF d.usage = <<>> THEN t ELSE d.mtime]

\* _read_cache_instance, the value it returns.
ReadValue(d, strat) ==
    IF d.hasShelf
    THEN IF strat \in {"lazy-load-discard", "lazy-load-keep"}
         THEN [kind |-> "lazy", data |-> <<LazyInit(d.shelf, strat)>>]
         ELSE [kind |-> "list", data |-> EagerList(d.shelf)]
    ELSE [kind |-> "single", data |-> d.single]

\* _get_cache_instance_last_usage_time
LastUsageTime(d) == IF d.usage # <<>> THEN d.usage[1] ELSE d.mtime

\* _cleanup._get_cache_root_status_quo, _cleanup_necessary
CleanupNecessary(f) ==
    \/ maxSize # <<>> /\ RootSize(f) > maxSize[1]
    \/ maxInst # <<>> /\ NInstances(f) > maxInst[1]

\* _cleanup: the directories other than the youngest one.
\* Candidates that include the youngest directory.
CandidatesAll(f, youngest) == DOMAIN f

Candidates(f, youngest) == {p \in DOMAIN f : p # youngest}

\* sorted(d.items(), key=time): the paths of a usage-time dictionary d (a
\* function from times to paths) in ascending order of their times.
RECURSIVE SortedPaths(_)
SortedPaths(d) ==
    IF DOMAIN d = {} THEN <<>>
    ELSE LET t == CHOOSE x \in DOMAIN d : \A y \in DOMAIN d : x <= y
         IN <<d[t]>> \o SortedPaths([y \in DOMAIN d \ {t} |-> d[y]])

\* _cleanup, _instance_usage_time__paths: the dictionaries the comprehension
\* {time(path): path for path in iterdir()} can build.  A key met again
\* replaces the path stored under it, so of the directories that share a time
\* the one enumerated last is kept.
UsageTimeDicts(f, youngest) ==
    LET C == Candidates(f, youngest)
        T == {LastUsageTime(f[p]) : p \in C}
    IN {d \in [T -> C] : \A t \in T : LastUsageTime(f[d[t]]) = t}

\* The order of the directories by their last read, with p read now.
Used(order, p) == SelectSeq(order, LAMBDA q : q # p) \o <<p>>

Forgot(order, p) == SelectSeq(order, LAMBDA q : q # p)

\* The call sequence A (miss), B (miss), A (hit), C (miss), any call.
ScenNext(s, d, hit) ==
    IF s = "start" /\ d = DescA /\ ~hit THEN "A"
    ELSE IF s = "A" /\ d = DescB /\ ~hit THEN "AB"
    ELSE IF s = "AB" /\ d = DescA /\ hit THEN "ABA"
    ELSE IF s = "ABA" /\ d = DescC /\ ~hit THEN "ABAC"
    ELSE IF s = "ABAC" THEN "done"
    ELSE "off"

\* wrapper: _get_config_from_params and _lookup_cache.
Call(d) ==
    /\ pc = "idle"
    /\ req' = d
    /\ invoked' = 0
    /\ fault' = ""
    /\ before' = [n |-> NInstances(fs), size |-> RootSize(fs)]
    /\ LET found == LookupResults(fs, d) IN
       IF found = {}
       THEN /\ pc' = "create"
            /\ path' = 0
       ELSE /\ pc' = "hit"
            /\ \E p \in found : path' = p
    /\ UNCHANGED <<fs, now, confVars, userData, idx, deletable, exc, ret,
                   useOrder, scen, lazyVars, peer>>

\* The outcome of a call: the value it returned, or the exception it raised.
Returned(v) ==
    [desc |-> req, outcome |-> "returned", exc |-> "", value |-> v,
     invoked |-> invoked, n |-> NInstances(fs)]

Raised(e, f) ==
    [desc |-> req, outcome |-> "raised", exc |-> e, value |-> NoValue,
     invoked |-> invoked, n |-> NInstances(f)]

\* A return of the computed value without _read_cache_instance.
ReturnUnread(isHit) ==
    /\ fs' = fs
    /\ ret' = Returned([kind |-> "single", data |-> userData.items])
    /\ useOrder' = Used(useOrder, path)
    /\ scen' = ScenNext(scen, req, isHit)
    /\ before' = NoStats
    /\ pc' = "idle"
    /\ path' = 0
    /\ userData' = NoData
    /\ idx' = 0
    /\ invoked' = 0
    /\ fault' = ""
    /\ UNCHANGED <<now, confVars, req, deletable, exc, lazyVars, peer>>

\* wrapper: _read_cache_instance of the instance at path, and return.
Return(isHit) ==
    /\ fs' = [fs EXCEPT ![path] = TouchLastUsage(fs[path], now)]
    /\ ret' = Returned(ReadValue(fs[path], strategy))
    /\ useOrder' = Used(useOrder, path)
    /\ scen' = ScenNext(scen, req, isHit)
    /\ before' = NoStats
    /\ pc' = "idle"
    /\ path' = 0
    /\ userData' = NoData
    /\ idx' = 0
    /\ invoked' = 0
    /\ fault' = ""
    /\ UNCHANGED <<now, confVars, req, deletable, exc, lazyVars, peer>>

\* A cache hit that runs _cleanup before it reads.
ReadHitWithCleanup ==
    /\ pc = "hit"
    /\ pc' = "cleanup"
    /\ UNCHANGED <<fs, now, confVars, req, path, userData, idx, deletable, exc,
                   histVars, lazyVars, peer>>

\* wrapper, cache hit: _read_cache_instance and return.
ReadHit ==
    /\ pc = "hit"
    /\ Return(TRUE)

\* _create_new_cache_path, the name: a name that is not in use.  The name is
\* built from the time and a uuid; the model takes the first free name,
\* counting from the position of the config object among Descs.
DescSeq == <<DescA, DescB, DescC>>

\* A name that does not depend on the names in use.
NewNameFixed(f, d) == 1

NewName(f, d) ==
    LET start == CHOOSE i \in 1..Len(DescSeq) : DescSeq[i] = d
        nth(i) == ((start + i - 2) % MaxDirs) + 1
        first == CHOOSE i \in 1..MaxDirs :
                    /\ nth(i) \notin DOMAIN f
                    /\ \A j \in 1..(i - 1) : nth(j) \in DOMAIN f
    IN nth(first)

\* _create_new_cache_path: mkdir of the new sub-folder.
Create ==
    /\ pc = "create"
    /\ DOMAIN fs # DirIds
    /\ path' = NewName(fs, req)
    /\ fs' = (path' :> EmptyDir(now)) @@ fs
    /\ pc' = "compute"
    /\ UNCHANGED <<now, confVars, req, userData, idx, deletable, exc, histVars,
                   lazyVars, peer>>

\* wrapper: user_function(*args, **kwargs) returns.
Compute ==
    /\ pc = "compute"
    /\ \E r \in UserResults :
        /\ userData' = r
        /\ pc' = IF r.iter THEN "open_shelf" ELSE "write_single"
    /\ invoked' = invoked + 1
    /\ UNCHANGED <<fs, now, confVars, req, path, idx, deletable, exc, fault,
                   before, ret, useOrder, scen, lazyVars, peer>>

\* wrapper: pickle.dump of a single value to single-cache.bin.
WriteSingle ==
    /\ pc = "write_single"
    /\ fs' = [fs EXCEPT ![path].single = userData.items, ![path].mtime = now]
    /\ pc' = "commit_open"
    /\ UNCHANGED <<now, confVars, req, path, userData, idx, deletable, exc,
                   histVars, lazyVars, peer>>

\* wrapper: shelve.open(..., flag="n") creates the empty shelf.
OpenShelf ==
    /\ pc = "open_shelf"
    /\ fs' = [fs EXCEPT ![path].hasShelf = TRUE, ![path].mtime = now]
    /\ idx' = 0
    /\ pc' = "enumerate"
    /\ UNCHANGED <<now, confVars, req, path, userData, deletable, exc, histVars,
                   lazyVars, peer>>

\* wrapper: _shelf[str(idx)] = v for the next item of _user_data.
WriteItem ==
    /\ pc = "enumerate"
    /\ idx < Len(userData.items)
    /\ fs' = [fs EXCEPT ![path].shelf = ShelfOf(userData.items, idx + 1)]
    /\ idx' = idx + 1
    /\ UNCHANGED <<now, confVars, pc, req, path, userData, deletable, exc,
                   histVars, lazyVars, peer>>

\* wrapper: _user_data is exhausted, the shelf is closed.
EndEnumerate ==
    /\ pc = "enumerate"
    /\ idx = Len(userData.items)
    /\ pc' = "commit_open"
    /\ UNCHANGED <<fs, now, confVars, req, path, userData, idx, deletable, exc,
                   histVars, lazyVars, peer>>

\* wrapper: open(config.yaml, mode="w") creates the empty file.
CommitOpen ==
    /\ pc = "commit_open"
    /\ fs' = [fs EXCEPT ![path].cfg = "partial", ![path].mtime = now]
    /\ pc' = "commit_dump"
    /\ UNCHANGED <<now, confVars, req, path, userData, idx, deletable, exc,
                   histVars, lazyVars, peer>>

\* wrapper: yaml.dump(_config._to_dict()) and the close of the file.
CommitDump ==
    /\ pc = "commit_dump"
    /\ fs' = [fs EXCEPT ![path].cfg = "ok", ![path].dict = ToDict(req)]
    /\ pc' = "cleanup"
    /\ UNCHANGED <<now, confVars, req, path, userData, idx, deletable, exc,
                   histVars, lazyVars, peer>>

\* The positions inside the try block of wrapper.
TryBlock == {"compute", "write_single", "open_shelf", "enumerate", "commit_open",
             "commit_dump"}

\* wrapper: something raises inside the try block: user_function (or the
\* generator it returned), a write, or a SystemExit/KeyboardInterrupt.
Raise ==
    /\ pc \in TryBlock
    /\ \E e \in Failures :
        /\ exc' = e
        /\ fault' = e
    /\ invoked' = IF pc = "compute" THEN invoked + 1 ELSE invoked
    /\ pc' = "except"
    /\ UNCHANGED <<fs, now, confVars, req, path, userData, idx, deletable,
                   before, ret, useOrder, scen, lazyVars, peer>>

\* wrapper, the except clauses: what is left of the instance directory after
\* shutil.rmtree(_cache_instance_path).
\* A rollback that removes the files and leaves the directory.
RollbackFilesOnly(f, p) == [f EXCEPT ![p] = EmptyDir(f[p].mtime)]

Rollback(f, p) == RmTree(f, p)

\* An except clause that swallows the exception: the call returns None.
ReraiseSwallowed(e) == Returned(NoValue)

\* wrapper, the except clauses: raise.
Reraise(e) == Raised(e, Rollback(fs, path))

Except ==
    /\ pc = "except"
    /\ fs' = Rollback(fs, path)
    /\ ret' = Reraise(exc)
    /\ useOrder' = Forgot(useOrder, path)
    /\ scen' = "off"
    /\ before' = NoStats
    /\ pc' = "idle"
    /\ path' = 0
    /\ exc' = ""
    /\ userData' = NoData
    /\ idx' = 0
    /\ invoked' = 0
    /\ fault' = ""
    /\ UNCHANGED <<now, confVars, req, deletable, lazyVars, peer>>

\* _cleanup up to its while loop.
Cleanup ==
    /\ pc = "cleanup"
    /\ IF CleanupNecessary(fs)
       THEN /\ \E d \in UsageTimeDicts(fs, path) : deletable' = SortedPaths(d)
            /\ pc' = "evict"
       ELSE /\ deletable' = <<>>
            /\ pc' = "read_new"
    /\ UNCHANGED <<fs, now, confVars, req, path, userData, idx, exc, histVars,
                   lazyVars, peer>>

\* A loop condition that stops one directory early.
LoopConditionOffByOne(f) == NInstances(f) > 2 /\ CleanupNecessary(f)

\* A loop condition that does not look at the limits.
LoopConditionAlways(f) == NInstances(f) >= 2

\* _cleanup: the condition of its while loop.
LoopCondition(f) == NInstances(f) >= 2 /\ CleanupNecessary(f)

\* _cleanup: one turn of the while loop, or its end.  With no path left to
\* delete, _sorted_deletable_paths[0] raises IndexError out of wrapper.
Evict ==
    /\ pc = "evict"
    /\ IF LoopCondition(fs)
       THEN IF deletable = <<>>
            THEN /\ ret' = Raised("IndexError", fs)
                 /\ scen' = "off"
                 /\ before' = NoStats
                 /\ pc' = "idle"
                 /\ path' = 0
                 /\ userData' = NoData
                 /\ idx' = 0
                 /\ invoked' = 0
                 /\ UNCHANGED <<fs, deletable, useOrder>>
            ELSE /\ fs' = RmTree(fs, Head(deletable))
                 /\ deletable' = Tail(deletable)
                 /\ useOrder' = Forgot(useOrder, Head(deletable))
                 /\ UNCHANGED <<pc, path, userData, idx, ret, scen, before, invoked>>
       ELSE /\ pc' = "read_new"
            /\ deletable' = <<>>
            /\ UNCHANGED <<fs, path, userData, idx, ret, useOrder, scen, before, invoked>>
    /\ UNCHANGED <<now, confVars, req, exc, fault, lazyVars, peer>>

\* wrapper, after _cleanup: _read_cache_instance of the new instance, return.
ReadNew ==
    /\ pc = "read_new"
    /\ Return(FALSE)

\* The clock advances.
Tick ==
    /\ now < MaxTime
    /\ now' = now + 1
    /\ UNCHANGED <<fs, confVars, callVars, histVars, lazyVars, peer>>

NoLazy == LazyInit(<<>>, "lazy-load-discard")
NoOp == [op |-> "none", idx |-> 0, result |-> "none", value |-> 0, read |-> FALSE,
         first |-> FALSE]
NoHist == [accessed |-> {}, closed |-> FALSE]

\* No call of wrapper has been made.
\* No second call: it has not looked up anything.
NoPeer == [pc |-> "idle", req |-> DescA, path |-> 0, dir |-> EmptyDir(0),
           outcome |-> "none"]

NoCall ==
    /\ pc = "idle"
    /\ req = DescA
    /\ path = 0
    /\ userData = NoData
    /\ idx = 0
    /\ deletable = <<>>
    /\ exc = ""
    /\ invoked = 0
    /\ fault = ""
    /\ before = NoStats
    /\ ret = NoRet
    /\ useOrder = <<>>
    /\ scen = IF maxInst = <<2>> /\ maxSize = <<>> THEN "start" ELSE "off"

\* The decorator was applied to a function, on an empty cache root folder.
Init ==
    /\ fs = <<>>
    /\ now = 1
    /\ \E c \in Decorations :
        /\ maxInst = c[1]
        /\ maxSize = c[2]
        /\ strategy = c[3]
    /\ NoCall
    /\ lazy = NoLazy
    /\ lastOp = NoOp
    /\ out = <<>>
    /\ hist = NoHist
    /\ peer = NoPeer


Next ==
    \/ \E d \in Descs : Call(d)
    \/ ReadHit
    \/ Create
    \/ Compute
    \/ WriteSingle
    \/ OpenShelf
    \/ WriteItem
    \/ EndEnumerate
    \/ CommitOpen
    \/ CommitDump
    \/ Raise
    \/ Except
    \/ Cleanup
    \/ Evict
    \/ ReadNew
    \/ Tick

Spec == Init /\ [][Next]_vars

\* ------------------------- the calls, cache_root_clear and interruptions
\* A clear that removes the first sub-directory only.
ClearedFirstOnly(f) == IF f = <<>> THEN f ELSE RmTree(f, CHOOSE p \in DOMAIN f : TRUE)

\* cache_root_clear: the root folder after rmtree of every sub-directory.
Cleared(f) == [q \in {} |-> f[q]]

\* cache_root_clear, called while no call of wrapper is in progress.  The
\* outcome records how many directories the root held.
ClearRoot ==
    /\ pc = "idle"
    /\ fs' = Cleared(fs)
    /\ ret' = [NoRet EXCEPT !.outcome = "cleared", !.desc = ret.desc,
                            !.n = NInstances(fs)]
    /\ useOrder' = <<>>
    /\ scen' = "off"
    /\ UNCHANGED <<now, confVars, callVars, invoked, fault, before, lazyVars, peer>>

\* The state of a caller that no call of wrapper occupies any more.
CallGone ==
    /\ pc' = "idle"
    /\ path' = 0
    /\ userData' = NoData
    /\ idx' = 0
    /\ invoked' = 0
    /\ fault' = ""
    /\ before' = NoStats
    /\ scen' = "off"
    /\ UNCHANGED <<fs, now, confVars, req, deletable, exc, useOrder, lazyVars, peer>>

\* wrapper: a KeyboardInterrupt arrives after _create_new_cache_path made the
\* directory and before the try block is entered: no except clause runs.
Interrupt ==
    /\ pc = "compute"
    /\ ret' = Raised("KeyboardInterrupt", fs)
    /\ CallGone

\* The process is killed between the payload write and the end of the write
\* of config.yaml: nothing runs any more, the files stay as they are.
Crash ==
    /\ pc \in {"commit_open", "commit_dump"}
    /\ ret' = [NoRet EXCEPT !.outcome = "crashed", !.desc = req,
                            !.n = NInstances(fs)]
    /\ CallGone

\* The calls of wrapper together with cache_root_clear.
NextClear ==
    \/ Next
    \/ ClearRoot

SpecClear == Init /\ [][NextClear]_vars

\* The calls of wrapper with interruptions and crashes, decorated with the
\* default strategy and no limit or max_cache_instances=2.
DecorationsAbort ==
    {c \in Decorations :
        c[1] \in {<<>>, <<2>>} /\ c[2] = <<>> /\ c[3] = "lazy-load-keep"}

InitAbort ==
    /\ fs = <<>>
    /\ now = 1
    /\ \E c \in DecorationsAbort :
        /\ maxInst = c[1]
        /\ maxSize = c[2]
        /\ strategy = c[3]
    /\ NoCall
    /\ lazy = NoLazy
    /\ lastOp = NoOp
    /\ out = <<>>
    /\ hist = NoHist
    /\ peer = NoPeer

NextAbort ==
    \/ Next
    \/ Interrupt
    \/ Crash

SpecAbort == InitAbort /\ [][NextAbort]_vars

\* ------------------------------ a KeyboardInterrupt inside _lookup_cache
\* _lookup_cache when a KeyboardInterrupt arrives while the config.yaml of the
\* k-th enumerated directory is read and parsed: "except BaseException"
\* catches it like any failure of the load, and the loop goes on with the
\* next directory.
RECURSIVE LookupScanInterrupted(_, _, _, _)
LookupScanInterrupted(f, config, order, k) ==
    IF order = <<>> THEN 0
    ELSE LET d == f[Head(order)] IN
         IF d.cfg = "none"
         THEN LookupScanInterrupted(f, config, Tail(order), k - 1)
         ELSE IF k = 1 \/ ParseRaises(d)
         THEN LookupScanInterrupted(f, config, Tail(order), k - 1)
         ELSE IF CacheIsCompatible(config, FromDict(d.dict)) THEN Head(order)
         ELSE LookupScanInterrupted(f, config, Tail(order), k - 1)

\* wrapper: _get_config_from_params and a _lookup_cache during which a
\* KeyboardInterrupt arrives, at the load of a config.yaml the loop reaches.
CallInterrupted(d) ==
    /\ pc = "idle"
    /\ req' = d
    /\ invoked' = 0
    /\ fault' = "KeyboardInterrupt"
    /\ before' = [n |-> NInstances(fs), size |-> RootSize(fs)]
    /\ \E order \in Enumerations(DOMAIN fs) : \E k \in 1..Len(order) :
        /\ fs[order[k]].cfg # "none"
        /\ LookupScan(fs, d, SubSeq(order, 1, k - 1)) = 0
        /\ LET p == LookupScanInterrupted(fs, d, order, k) IN
           /\ pc' = IF p = 0 THEN "create" ELSE "hit"
           /\ path' = p
    /\ UNCHANGED <<fs, now, confVars, userData, idx, deletable, exc, ret,
                   useOrder, scen, lazyVars, peer>>

NextCancel ==
    \/ Next
    \/ \E d \in Descs : CallInterrupted(d)

\* The calls of wrapper with interrupted lookups, decorated with the default
\* strategy and max_cache_instances=2.
InitCancel ==
    /\ InitAbort
    /\ maxInst = <<2>>

SpecCancel == InitCancel /\ [][NextCancel]_vars

\* ------------------------------------- two wrapper calls on one root
\* wrapper of a second caller: _get_config_from_params and a _lookup_cache
\* that finds an instance.  The call remembers the path; dir records the
\* directory the path named then.
PeerCall(d) ==
    /\ peer.pc = "idle"
    /\ \E p \in LookupResults(fs, d) :
        peer' = [pc |-> "hit", req |-> d, path |-> p, dir |-> fs[p],
                 outcome |-> "none"]
    /\ UNCHANGED <<fs, now, confVars, callVars, histVars, lazyVars>>

\* The directory the second call found is still there.  _create_new_cache_path
\* never builds a name twice (uuid), while the model takes free names again: a
\* directory under the name that differs in content or creation from the one
\* found is another directory, and the one found is gone.
PeerDirExists ==
    /\ peer.path \in DOMAIN fs
    /\ [fs[peer.path] EXCEPT !.usage = <<>>, !.mtime = 0]
       = [peer.dir EXCEPT !.usage = <<>>, !.mtime = 0]
    /\ \/ fs[peer.path].mtime = peer.dir.mtime
       \/ peer.dir.usage = <<>> /\ fs[peer.path].usage # <<>>

\* wrapper of the second caller, cache hit: _read_cache_instance on the path
\* it found.  When the directory is gone the write of the last-usage file
\* fails with an IOError that is swallowed, and iterdir() raises
\* FileNotFoundError out of the call.
PeerRead ==
    /\ peer.pc = "hit"
    /\ IF PeerDirExists
       THEN /\ fs' = [fs EXCEPT ![peer.path] = TouchLastUsage(fs[peer.path], now)]
            /\ useOrder' = Used(useOrder, peer.path)
            /\ peer' = [peer EXCEPT !.pc = "done", !.outcome = "returned"]
       ELSE /\ peer' = [peer EXCEPT !.pc = "done",
                                    !.outcome = "FileNotFoundError"]
            /\ UNCHANGED <<fs, useOrder>>
    /\ scen' = "off"
    /\ UNCHANGED <<now, confVars, callVars, invoked, fault, before, ret,
                   lazyVars>>

\* Two callers, the second of which makes one call that hits; decorated with
\* the default strategy and max_cache_instances=1.
InitPeer ==
    /\ fs = <<>>
    /\ now = 1
    /\ maxInst = <<1>>
    /\ maxSize = <<>>
    /\ strategy = "lazy-load-keep"
    /\ NoCall
    /\ lazy = NoLazy
    /\ lastOp = NoOp
    /\ out = <<>>
    /\ hist = NoHist
    /\ peer = NoPeer

NextPeer ==
    \/ Next
    \/ \E d \in Descs : PeerCall(d)
    \/ PeerRead

SpecPeer == InitPeer /\ [][NextPeer]_vars

\* --------------------------------------- _lookup_cache on any root folder
\* The sub-directories a root folder can hold: an instance committed for a
\* config object and read once; a directory with its payload and no
\* config.yaml; one whose config.yaml was opened and not dumped; one whose
\* config.yaml holds the fields of another config class.
CommittedKinds ==
    {[EmptyDir(1) EXCEPT !.single = <<1>>, !.cfg = "ok", !.dict = ToDict(d),
                         !.usage = <<TimeNs(1)>>] : d \in Descs}

DirKinds ==
    CommittedKinds
    \cup {[EmptyDir(1) EXCEPT !.single = <<1>>],
          [EmptyDir(1) EXCEPT !.single = <<1>>, !.cfg = "partial"],
          [EmptyDir(1) EXCEPT !.single = <<1>>, !.cfg = "ok",
                              !.dict = << <<"z", 1>> >>]}

\* The decorated function is called on a root folder that earlier runs of the
\* program left behind, holding at most one committed instance per config object.
InitLookup ==
    /\ \E n \in 0..MaxDirs : \E f \in [1..n -> DirKinds] :
        /\ \A p, q \in 1..n : (p # q /\ f[p] \in CommittedKinds) => f[p] # f[q]
        /\ fs = f
    /\ now = 1
    /\ maxInst = <<>>
    /\ maxSize = <<>>
    /\ strategy = "lazy-load-keep"
    /\ NoCall
    /\ lazy = NoLazy
    /\ lastOp = NoOp
    /\ out = <<>>
    /\ hist = NoHist
    /\ peer = NoPeer

NextLookup ==
    \/ \E d \in Descs : Call(d)
    \/ ReadHit

SpecLookup == InitLookup /\ [][NextLookup]_vars

\* ------------------------------------------------- a LazyList on its own
\* The sequences over S of length up to n.
RECURSIVE SeqsUpTo(_, _)
SeqsUpTo(S, n) ==
    IF n = 0 THEN {<<>>}
    ELSE LET shorter == SeqsUpTo(S, n - 1)
         IN shorter \cup {Append(q, v) : q \in {r \in shorter : Len(r) = n - 1}, v \in S}

\* _read_cache_instance returned a LazyList on the shelf of some instance.
InitLazy ==
    /\ fs = <<>>
    /\ now = 1
    /\ maxInst = <<>>
    /\ maxSize = <<>>
    /\ strategy \in {"lazy-load-discard", "lazy-load-keep"}
    /\ NoCall
    /\ \E items \in SeqsUpTo(Values, MaxShelf) :
          lazy = LazyInit(ShelfOf(items, Len(items)), strategy)
    /\ lastOp = NoOp
    /\ out = <<>>
    /\ hist = NoHist
    /\ peer = NoPeer

\* The slot of the index i in a list of length n.
Slot(n, i) == IF i < 0 THEN n + i ELSE i

\* The caller evaluates lazy[i].
At(i) ==
    /\ LET r == GetItem(lazy, i) IN
        /\ lazy' = r.lazy
        /\ lastOp' = [op |-> "getitem", idx |-> i, result |-> r.result,
                      value |-> r.value, read |-> r.read,
                      first |-> Slot(lazy.len, i) \notin hist.accessed]
        /\ hist' = IF r.result = "ok"
                   THEN [hist EXCEPT !.accessed = @ \cup {Slot(lazy.len, i)}]
                   ELSE hist
    /\ UNCHANGED <<fs, now, confVars, callVars, histVars, out, peer>>

\* The caller (or __del__) evaluates lazy._close().
Release ==
    /\ lazy' = Close(lazy)
    /\ lastOp' = [op |-> "close", idx |-> 0, result |-> "ok", value |-> 0,
                  read |-> FALSE, first |-> FALSE]
    /\ hist' = [hist EXCEPT !.closed = TRUE]
    /\ UNCHANGED <<fs, now, confVars, callVars, histVars, out, peer>>

NextLazy ==
    \/ \E i \in (0 - lazy.len - 1)..lazy.len : At(i)
    \/ Release

SpecLazy == InitLazy /\ [][NextLazy]_vars

\* ------------------------------------- reading a stored iterable back
\* The items v0..v(n-1) an iterable produced: the item at index i is i + 1.
Produced(n) == [i \in 1..n |-> i]

\* The instance directory wrapper leaves after it stored and committed items
\* for config at time t, before the instance was read.
Committed(config, items, t) ==
    [EmptyDir(t) EXCEPT !.hasShelf = TRUE,
                        !.shelf = ShelfOf(items, Len(items)),
                        !.cfg = "ok",
                        !.dict = ToDict(config)]

\* wrapper stored an iterable of up to MaxItems items; the instance is about
\* to be read, by the creating call or by a later hit.
InitRead ==
    /\ now = 1
    /\ maxInst = <<>>
    /\ maxSize = <<>>
    /\ strategy \in Strategies
    /\ \E n \in 0..MaxItems :
        /\ userData = [iter |-> TRUE, items |-> Produced(n)]
        /\ fs = (1 :> Committed(DescA, Produced(n), 1))
        /\ idx = n
    /\ pc = "read_new"
    /\ req = DescA
    /\ path = 1
    /\ deletable = <<>>
    /\ exc = ""
    /\ invoked = 1
    /\ fault = ""
    /\ before = NoStats
    /\ ret = NoRet
    /\ useOrder = <<>>
    /\ scen = "off"
    /\ lazy = NoLazy
    /\ lastOp = NoOp
    /\ out = <<>>
    /\ hist = NoHist
    /\ peer = NoPeer

\* The value wrapper returned reaches the caller: a list as it is, a LazyList
\* to be iterated.
Receive ==
    /\ pc = "idle"
    /\ lastOp.op = "none"
    /\ ret.outcome = "returned"
    /\ IF ret.value.kind = "lazy"
       THEN /\ lazy' = ret.value.data[1]
            /\ out' = <<>>
            /\ lastOp' = [NoOp EXCEPT !.op = "iter"]
       ELSE /\ lazy' = lazy
            /\ out' = ret.value.data
            /\ lastOp' = [NoOp EXCEPT !.op = "done"]
    /\ UNCHANGED <<fs, now, confVars, callVars, histVars, hist, peer>>

\* LazyList.__iter__: the next item, self[idx].
IterNext ==
    /\ lastOp.op = "iter"
    /\ Len(out) < lazy.len
    /\ LET r == GetItem(lazy, Len(out)) IN
        /\ lazy' = r.lazy
        /\ out' = Append(out, r.value)
        /\ lastOp' = [lastOp EXCEPT !.idx = Len(out), !.result = r.result,
                                    !.value = r.value, !.read = r.read]
    /\ UNCHANGED <<fs, now, confVars, callVars, histVars, hist, peer>>

\* LazyList.__iter__: range(self._len) is exhausted.
IterEnd ==
    /\ lastOp.op = "iter"
    /\ Len(out) = lazy.len
    /\ lastOp' = [lastOp EXCEPT !.op = "done"]
    /\ UNCHANGED <<fs, now, confVars, callVars, histVars, lazy, out, hist, peer>>

NextRead ==
    \/ ReadNew
    \/ \E d \in {DescA} : Call(d)
    \/ ReadHit
    \/ Receive
    \/ IterNext
    \/ IterEnd

SpecRead == InitRead /\ [][NextRead]_vars

\* LazyList.__iter__ as a whole: the items it yields from index i on.
RECURSIVE Iterate(_, _)
Iterate(l, i) ==
    IF i >= l.len THEN <<>>
    ELSE LET r == GetItem(l, i) IN <<r.value>> \o Iterate(r.lazy, i + 1)

\* What the caller obtains from the instance d under a strategy.
ReadAll(d, strat) ==
    LET v == ReadValue(d, strat)
    IN IF v.kind = "lazy" THEN Iterate(v.data[1], 0) ELSE v.data

\* ---------------------------------------------------------------- claims
\* A step that ends a call.
CallEnds == pc # "idle" /\ pc' = "idle"

\* Equality of two values returned by wrapper: == of the objects.
ResultEq(v, w) ==
    /\ v.kind = w.kind
    /\ IF v.kind = "lazy" THEN LazyEq(v.data[1], w.data[1]) ELSE v.data = w.data

Found(f, d) == LookupResults(f, d) # {}

Unlimited == maxInst = <<>> /\ maxSize = <<>>

\* C1: when a call returns whose config object is compatible with the one of
\* the call that returned just before it, the later call did not invoke
\* user_function (the two calls invoked it at most once), its value equals the
\* earlier call's value, and the root holds as many instance directories as
\* after the earlier call.
C1_IdempotentHit ==
    [][(/\ CallEnds
        /\ ret.outcome = "returned"
        /\ ret'.outcome = "returned"
        /\ CacheIsCompatible(ret'.desc, ret.desc))
       => (/\ ret'.invoked = 0
           /\ ret.invoked + ret'.invoked <= 1
           /\ ResultEq(ret'.value, ret.value)
           /\ ret'.n = ret.n)]_vars

\* C1 witness: a call that computed and stored an iterable has returned, and a
\* second call with the same config object is about to read the instance,
\* under a limit on the number of instances.
C1_Witness ==
    /\ pc = "hit"
    /\ ret.outcome = "returned"
    /\ ret.invoked = 1
    /\ ret.desc = req
    /\ ret.value.kind = "lazy"
    /\ maxInst # <<>>

\* C2: when something raised inside the try block of a call that missed
\* (user_function, a generator part-way through, a write), the root folder's
\* instance count and total size after the call equal those before the call,
\* and the directory of the failed instance is gone.
C2_RollbackAtomicity ==
    [][(pc = "except" /\ pc' = "idle")
       => (/\ NInstances(fs') = before.n
           /\ RootSize(fs') = before.size
           /\ path \notin DOMAIN fs')]_vars

\* C2 witness: a generator raised after its first item was written to the
\* shelf, in a root that holds another instance.
C2_Witness ==
    /\ pc = "except"
    /\ invoked = 1
    /\ fs[path].hasShelf
    /\ idx = 1
    /\ idx < Len(userData.items)
    /\ before.n >= 1

\* C3: once something is raised inside the try block the call only rolls back
\* and ends: it raises what was raised, unchanged, returns no value, has
\* invoked user_function at most once, and is not served from the cache.
C3_FailurePropagates ==
    /\ [](fault # "" => pc = "except")
    /\ [][(fault # "" /\ CallEnds)
          => (/\ ret'.outcome = "raised"
              /\ ret'.exc = fault
              /\ ret'.value = NoValue
              /\ ret'.invoked <= 1
              /\ path \notin DOMAIN fs')]_vars

\* C3 witness: a call in which a KeyboardInterrupt arrived while config.yaml
\* was being written has ended by raising it.
C3_Witness ==
    /\ pc = "idle"
    /\ ret.outcome = "raised"
    /\ ret.exc = "KeyboardInterrupt"
    /\ ret.invoked = 1
    /\ fs # <<>>

\* C4: in every state, _lookup_cache returns only instances whose config.yaml
\* has been written, and never the instance a call is still creating.
C4_CommitVisibility ==
    \A d \in Descs : \A p \in LookupResults(fs, d) :
        /\ fs[p].cfg = "ok"
        /\ (pc \in TryBlock \cup {"create", "except"}) => p # path

\* C4 witness: an instance with its payload partly written and no config.yaml
\* exists next to a committed instance.
C4_Witness ==
    /\ pc = "enumerate"
    /\ idx = 1
    /\ idx < Len(userData.items)
    /\ fs[path].cfg = "none"
    /\ \E d \in Descs : Found(fs, d)

\* C5: eviction never deletes an instance while another instance, other than
\* the youngest one, that was read less recently remains in the root.
C5_LruOrder ==
    [][\A x \in DOMAIN fs \ DOMAIN fs' :
          pc = "evict" =>
             \A i, j \in 1..Len(useOrder) :
                 (useOrder[j] = x /\ useOrder[i] # path /\ i < j) => FALSE]_vars

C7_ExemptSurvives ==
    /\ pc \in {"cleanup", "evict", "read_new"} =>
          (path \in DOMAIN fs /\ fs[path].cfg = "ok" /\ NInstances(fs) >= 1)
    /\ (pc = "idle" /\ ret.outcome = "returned") => Found(fs, ret.desc)

\* C7 witness: _cleanup has deleted the two other instances and the youngest
\* one alone still exceeds the size limit.
C7_Witness ==
    /\ pc = "read_new"
    /\ CleanupNecessary(fs)
    /\ DOMAIN fs = {path}
    /\ before.n = 2

\* C8: when _cleanup has ended, no limit is exceeded or the youngest instance
\* is the only directory left; with max_cache_instances = k alone, the root
\* holds at most k instances whenever no call is in progress.
C8_EvictionPostcondition ==
    /\ pc = "read_new" => (~CleanupNecessary(fs) \/ DOMAIN fs = {path})
    /\ (pc = "idle" /\ maxInst # <<>> /\ maxSize = <<>>) => NInstances(fs) <= maxInst[1]

\* C8 witness: _cleanup has ended after deleting an instance, with the root at
\* its limit of two instances.
C8_Witness ==
    /\ pc = "read_new"
    /\ maxInst = <<2>>
    /\ before.n = 2
    /\ NInstances(fs) = 2

\* C9: a call returns the value of an instance stored for its own config
\* object; without limits no instance stops being found, the instance of a
\* call that returned is found, and the root holds one instance per config
\* object found: k instances after calls for k different config objects.
C9_Distinctness ==
    /\ [][(pc \in {"hit", "read_new"} /\ pc' = "idle")
          => (fs[path].cfg = "ok" /\ FromDict(fs[path].dict) = req)]_vars
    /\ [][Unlimited => \A d \in Descs : Found(fs, d) => Found(fs', d)]_vars
    /\ []((Unlimited /\ pc = "idle" /\ ret.outcome = "returned") => Found(fs, ret.desc))
    /\ []((Unlimited /\ pc = "idle")
            => NInstances(fs) = Cardinality({d \in Descs : Found(fs, d)}))

\* C9 witness: without limits, calls for three different config objects have
\* returned and the root holds three instances.
C9_Witness ==
    /\ Unlimited
    /\ pc = "idle"
    /\ ret.outcome = "returned"
    /\ NInstances(fs) = 3

\* The items of the shelf a LazyList was opened on, in index order.
ItemAt(l, i) == l.shelf[Str(i)]

\* C10: for a LazyList of length N, l[i] succeeds for every i in -N..N-1 and
\* returns the item at i, or at N+i for a negative i; l[N] and l[-N-1] raise
\* IndexError.
C10_NegativeIndexing ==
    (lastOp.op = "getitem" /\ ~hist.closed) =>
        LET N == lazy.len
            i == lastOp.idx
        IN /\ (0 - N <= i /\ i < N) =>
                 /\ lastOp.result = "ok"
                 /\ lastOp.value = ItemAt(lazy, IF i < 0 THEN N + i ELSE i)
           /\ (i = N \/ i = 0 - N - 1) => lastOp.result = "IndexError"

\* The number of items stored in the instance that is read back.
StoredLen == Cardinality(DOMAIN fs[1].shelf)

\* C11: when the caller has obtained all items of a stored iterable under one
\* strategy, they are, item by item and in the same order, the items that each
\* of the three strategies yields for the same instance, whatever its length.
C11_StrategyEquivalence ==
    lastOp.op = "done" => \A s \in Strategies : out = ReadAll(fs[1], s)

\* C12: the value wrapper returns for an iterable that produced v0..v(N-1) has
\* length N and the item vi at every index i, on the creating call and on every
\* hit, and what the caller obtains from it (by iterating a LazyList) is
\* exactly v0..v(N-1) in production order.
C12_SequenceRoundTrip ==
    /\ (pc = "idle" /\ ret.outcome = "returned") =>
          LET v == ret.value
              items == Produced(StoredLen)
          IN IF v.kind = "lazy"
             THEN /\ v.data[1].len = StoredLen
                  /\ \A i \in 0..(StoredLen - 1) :
                        /\ GetItem(v.data[1], i).result = "ok"
                        /\ GetItem(v.data[1], i).value = items[i + 1]
             ELSE /\ Len(v.data) = StoredLen
                  /\ \A i \in 0..(StoredLen - 1) : v.data[i + 1] = items[i + 1]
    /\ lastOp.op = "done" => out = Produced(StoredLen)

\* C14: for a LazyList with the strategy "lazy-load-keep" on which _close was
\* not called from outside: the number of loaded slots is the number of
\* distinct indices accessed; the shelf is open exactly while less than all N
\* slots are loaded, for every N >= 0; l[i] with 0 <= i < N returns item i,
\* also after the shelf was closed, and reads the shelf exactly when i is
\* accessed for the first time.
C14_KeepRetention ==
    (lazy.strategy = "lazy-load-keep" /\ ~hist.closed) =>
        /\ lazy.nLoaded = Cardinality(hist.accessed)
        /\ lazy.isOpen <=> lazy.nLoaded < lazy.len
        /\ (lastOp.op = "getitem" /\ 0 <= lastOp.idx /\ lastOp.idx < lazy.len) =>
              /\ lastOp.result = "ok"
              /\ lastOp.value = ItemAt(lazy, lastOp.idx)
              /\ lastOp.read <=> lastOp.first

\* C15: _close raises nothing and leaves the LazyList closed; called on a
\* closed LazyList, after an earlier _close or after the automatic one of
\* "lazy-load-keep", it changes nothing.
C15_ReleaseIdempotent ==
    [][lastOp'.op = "close" =>
          /\ lastOp'.result = "ok"
          /\ ~lazy'.isOpen
          /\ ~lazy.isOpen => lazy' = lazy]_vars

\* C15 witness: _close was called on a "lazy-load-keep" LazyList that had
\* closed its shelf itself after all of its slots were loaded.
C15_Witness ==
    /\ lastOp.op = "close"
    /\ lazy.strategy = "lazy-load-keep"
    /\ lazy.len >= 2
    /\ lazy.nLoaded = lazy.len
    /\ ~lazy.isOpen

\* C13: after cache_root_clear the root holds no directory and no lookup finds
\* an instance; the call of wrapper that follows starts its miss path, and
\* when it returns it has invoked user_function and its new instance exists.
C13_ClearRoot ==
    /\ []((pc = "idle" /\ ret.outcome = "cleared") =>
            (NInstances(fs) = 0 /\ \A d \in Descs : LookupResults(fs, d) = {}))
    /\ [][(ret.outcome = "cleared" /\ pc = "idle" /\ pc' # "idle")
             => pc' = "create"]_vars
    /\ [][(ret.outcome = "cleared" /\ CallEnds /\ ret'.outcome = "returned")
             => (ret'.invoked = 1 /\ path \in DOMAIN fs' /\ Found(fs', ret'.desc))]_vars

\* C13 witness: cache_root_clear has deleted two directories, among them the
\* instance of the config object of the latest call, and the next call for
\* that config object has computed again.
C13_Witness ==
    /\ ret.outcome = "cleared"
    /\ ret.n = 2
    /\ pc = "read_new"
    /\ req = ret.desc
    /\ invoked = 1

\* C16: a call that ends by raising before its commit completed leaves no
\* directory of its instance behind, wherever after the creation of the
\* directory the failure or the KeyboardInterrupt arrived.
C16_NoPartialInstance ==
    [][(CallEnds /\ pc \in TryBlock \cup {"create", "except"}
                 /\ ret'.outcome = "raised")
          => path \notin DOMAIN fs']_vars

\* A directory with a payload and no config.yaml.
Orphan(d) == d.cfg = "none" /\ (d.single # <<>> \/ d.hasShelf)

\* C20: a directory with a payload and no config.yaml is never found by
\* _lookup_cache, is not among the paths _cleanup ranks for deletion, and is
\* not deleted by _cleanup.
C20_OrphanNotReclaimed ==
    [][/\ \A d \in Descs : \A p \in LookupResults(fs', d) : ~Orphan(fs'[p])
       /\ pc' = "evict" =>
             \A i \in 1..Len(deletable') :
                 deletable'[i] \in DOMAIN fs' => ~Orphan(fs'[deletable'[i]])
       /\ pc = "evict" => \A x \in DOMAIN fs \ DOMAIN fs' : ~Orphan(fs[x])]_vars

\* The instances that are committed, whose config.yaml parses, and whose
\* config object is compatible with d.
Matching(f, d) ==
    {p \in DOMAIN f :
        /\ f[p].cfg = "ok"
        /\ ~FromDictRaises(f[p].dict)
        /\ CacheIsCompatible(d, FromDict(f[p].dict))}

\* C19: in whatever order the sub-directories are enumerated, _lookup_cache
\* returns a committed instance with a parsing, compatible config.yaml, and
\* None exactly when there is none: a config.yaml that fails to load neither
\* ends the scan nor hides an instance enumerated after it.  A call hits such
\* an instance and misses only when there is none.
C19_LookupSkipsUnparseable ==
    /\ \A d \in Descs :
        /\ \A o \in Enumerations(DOMAIN fs) :
              LET r == LookupScan(fs, d, o)
              IN /\ r # 0 => r \in Matching(fs, d)
                 /\ r = 0 <=> Matching(fs, d) = {}
        /\ LookupResults(fs, d) = {LookupScan(fs, d, o) : o \in Enumerations(DOMAIN fs)} \ {0}
    /\ pc = "hit" => path \in Matching(fs, req)
    /\ pc = "create" => Matching(fs, req) = {}

\* C19 witness: a call hit an instance that is enumerated after a directory
\* whose config.yaml was not dumped and after one with foreign fields.
C19_Witness ==
    /\ pc = "hit"
    /\ path = 3
    /\ fs[1].cfg = "partial"
    /\ fs[2].cfg = "ok" /\ FromDictRaises(fs[2].dict)

\* The pairs of positions a call of wrapper may take one after the other.
StepOrder ==
    {<<"idle", "hit">>, <<"hit", "idle">>, <<"idle", "create">>,
     <<"create", "compute">>, <<"compute", "write_single">>,
     <<"compute", "open_shelf">>, <<"open_shelf", "enumerate">>,
     <<"write_single", "commit_open">>, <<"enumerate", "commit_open">>,
     <<"commit_open", "commit_dump">>, <<"commit_dump", "cleanup">>,
     <<"cleanup", "evict">>, <<"cleanup", "read_new">>, <<"evict", "read_new">>,
     <<"read_new", "idle">>, <<"except", "idle">>, <<"evict", "idle">>}
    \cup {<<p, "except">> : p \in TryBlock}

\* The payload of the call's instance is written completely.
PayloadWritten ==
    IF userData.iter
    THEN fs[path].hasShelf /\ fs[path].shelf = ShelfOf(userData.items, Len(userData.items))
    ELSE fs[path].single = userData.items

\* C17: a call that misses goes through lookup, create, user_function, payload
\* write, commit, _cleanup and read in this order; config.yaml exists only once
\* the payload is written completely; directories are deleted only by the
\* rollback of the call's own instance or by _cleanup after the commit, which
\* never deletes the new instance; the call returns what _read_cache_instance
\* reads from the committed instance, whose last-usage file it writes.
C17_MissPathOrder ==
    /\ [][pc' # pc => <<pc, pc'>> \in StepOrder]_vars
    /\ [](pc \in {"create", "compute", "write_single", "open_shelf", "enumerate",
                  "commit_open"} /\ path # 0 => fs[path].cfg = "none")
    /\ [](pc \in {"commit_dump", "cleanup", "evict", "read_new"} =>
            (PayloadWritten /\ invoked = 1))
    /\ [](pc \in {"cleanup", "evict", "read_new"} => fs[path].cfg = "ok")
    /\ [][DOMAIN fs' # DOMAIN fs =>
            \/ pc = "create" /\ DOMAIN fs' = DOMAIN fs \cup {path'}
            \/ pc = "except" /\ DOMAIN fs' = DOMAIN fs \ {path}
            \/ pc = "evict" /\ DOMAIN fs' \subseteq DOMAIN fs /\ path \in DOMAIN fs']_vars
    /\ [][(pc = "read_new" /\ pc' = "idle") =>
            /\ ret'.outcome = "returned"
            /\ ret'.invoked = 1
            /\ ret'.value = ReadValue(fs[path], strategy)
            /\ fs'[path].usage = <<TimeNs(now)>>]_vars

\* C17 witness: a call that stored an iterable has committed, _cleanup has
\* deleted an instance for it, and it is about to read its new instance.
C17_Witness ==
    /\ pc = "read_new"
    /\ userData.iter
    /\ maxSize # <<>>
    /\ before.n >= 1
    /\ NInstances(fs) <= before.n

\* C18: _cleanup deletes a directory only in a state where a limit is
\* exceeded, one directory at a time; it changes nothing when no limit is
\* exceeded, and nothing at all when both limits are None.
C18_EvictionMinimal ==
    /\ [][(pc \in {"cleanup", "evict"} /\ DOMAIN fs' # DOMAIN fs) =>
            /\ CleanupNecessary(fs)
            /\ Cardinality(DOMAIN fs \ DOMAIN fs') = 1
            /\ DOMAIN fs' \subseteq DOMAIN fs]_vars
    /\ [][(pc \in {"cleanup", "evict"} /\ (~CleanupNecessary(fs) \/ Unlimited))
            => fs' = fs]_vars

\* C18 witness: _cleanup has deleted an instance, no limit is exceeded any
\* more, and a path it ranked for deletion is left undeleted.
C18_Witness ==
    /\ pc = "evict"
    /\ ~CleanupNecessary(fs)
    /\ deletable # <<>>
    /\ NInstances(fs) <= before.n

\* C21: among the directories _cleanup ranks, one without a last-usage file
\* that was modified after the last read of another one has the greater
\* last-usage time of the two, so that it is ranked as used more recently.
C21_FallbackRecency ==
    pc = "evict" =>
        \A p, q \in Candidates(fs, path) :
            (/\ fs[p].usage = <<>>
             /\ fs[q].usage # <<>>
             /\ TimeNs(fs[p].mtime) > fs[q].usage[1])
            => LastUsageTime(fs[p]) > LastUsageTime(fs[q])

\* The files of an instance other than its last-usage file.
Content(d) == <<d.cfg, d.dict, d.single, d.hasShelf, d.shelf>>

\* C24: a call that hits changes no directory but the one it hit, of which it
\* changes the last-usage file alone (and the directory's modification time
\* when it creates that file); it creates and deletes no directory and never
\* enters _cleanup, also while the root exceeds a limit.
C24_HitFrame ==
    [][(pc = "idle" /\ pc' = "hit") \/ pc = "hit" =>
          /\ DOMAIN fs' = DOMAIN fs
          /\ \A p \in DOMAIN fs : Content(fs'[p]) = Content(fs[p])
          /\ \A p \in DOMAIN fs \ {path} : fs'[p] = fs[p]
          /\ pc' \in {"hit", "idle"}
          /\ pc' = "idle" =>
                /\ fs'[path].usage = <<TimeNs(now)>>
                /\ ret'.outcome = "returned"
                /\ ret'.invoked = 0]_vars

\* C24 witness: a call that hit has returned while the root exceeds its size
\* limit.
C24_Witness ==
    /\ pc = "idle"
    /\ ret.outcome = "returned"
    /\ ret.invoked = 0
    /\ CleanupNecessary(fs)

\* C25: when _cleanup has ranked the directories, every directory other than
\* the youngest one is among the ranked paths; while its loop condition holds
\* a path is left to delete; no call ends with the IndexError of an empty
\* list of paths.
C25_CompleteRanking ==
    /\ pc = "evict" =>
          /\ \A p \in DOMAIN fs \ {path} :
                \E i \in 1..Len(deletable) : deletable[i] = p
          /\ LoopCondition(fs) => deletable # <<>>
    /\ ret.exc # "IndexError"

\* C22: a call in which a KeyboardInterrupt arrived, the load of a
\* config.yaml in _lookup_cache included, does nothing but roll back and end;
\* it ends by raising the KeyboardInterrupt, returns no value and leaves no
\* directory of its own.
C22_CancellationPropagates ==
    [][/\ fault' = "KeyboardInterrupt" => pc' = "except"
       /\ (fault = "KeyboardInterrupt" /\ CallEnds)
          => (/\ ret'.outcome = "raised"
              /\ ret'.exc = "KeyboardInterrupt"
              /\ ret'.value = NoValue
              /\ path \notin DOMAIN fs')]_vars

\* C23: while a second call holds the path of the instance it found, a call
\* that runs its miss path for another config object leaves that instance in
\* place with its files as they were, and the second call ends by returning
\* the instance's value, not by raising.
C23_HitUnderInterleaving ==
    [][/\ (peer.pc = "hit" /\ peer'.pc = "hit" /\ req # peer.req)
          => (/\ peer.path \in DOMAIN fs'
              /\ Content(fs'[peer.path]) = Content(peer.dir))
       /\ (peer.pc = "hit" /\ peer'.pc = "done")
          => peer'.outcome = "returned"]_vars

====
